---- MODULE Spec2Model ----
(***************************************************************************)
(* Model of poem's rustls listener (poem/src/listener/rustls.rs):          *)
(* certificate descriptors, RustlsConfig and its compilation into a        *)
(* ServerConfig, the SNI resolver, and the RustlsAcceptor accept loop that *)
(* races the configuration stream against the inner acceptor.              *)
(***************************************************************************)
EXTENDS Integers, Sequences, FiniteSets, TLC

(***************************************************************************)
(* Option and Result values.                                               *)
(***************************************************************************)
None == <<>>
Some(x) == <<x>>
Ok(v) == [ok |-> TRUE, val |-> v]
Err(e) == [ok |-> FALSE, err |-> e]

(***************************************************************************)
(* Bounds of the model.                                                    *)
(***************************************************************************)
MaxFeed == 2
MaxInner == 2
MaxCalls == 2
MaxBuild == 3
MaxLen == 3
MaxText == 4

(***************************************************************************)
(* PEM input.  A byte string is modelled as the sequence of its PEM        *)
(* sections.  wf says that the section is terminated and its body is       *)
(* base64; der is the decoded content: the key pair it belongs to (id) and *)
(* whether the DER is usable (a parseable X.509 certificate, or a private  *)
(* key of a supported type).                                               *)
(***************************************************************************)
Block(kind, wf, id, valid) ==
    [kind |-> kind, wf |-> wf, der |-> [id |-> id, valid |-> valid]]

Cert(id) == Block("CERTIFICATE", TRUE, id, TRUE)
Pkcs1(id) == Block("RSA PRIVATE KEY", TRUE, id, TRUE)
Pkcs8(id) == Block("PRIVATE KEY", TRUE, id, TRUE)
Sec1(id) == Block("EC PRIVATE KEY", TRUE, id, TRUE)

\* The section types rustls_pemfile::read_one returns as an Item; a section
\* of any other type is skipped inside read_one.
ItemKinds ==
    {"CERTIFICATE", "RSA PRIVATE KEY", "PRIVATE KEY", "EC PRIVATE KEY", "X509 CRL"}

KeyKinds == {"RSA PRIVATE KEY", "PRIVATE KEY", "EC PRIVATE KEY"}

\* rustls_pemfile::read_one: the next item of the reader, Ok(None) at the
\* end of the input, an error on a section that does not decode.
RECURSIVE read_one(_)
read_one(rd) ==
    IF rd = <<>> THEN [res |-> Ok(None), rest |-> <<>>]
    ELSE IF ~Head(rd).wf THEN [res |-> Err("pem section does not decode"), rest |-> Tail(rd)]
    ELSE IF Head(rd).kind \in ItemKinds THEN [res |-> Ok(Some(Head(rd))), rest |-> Tail(rd)]
    ELSE read_one(Tail(rd))

\* rustls_pemfile::certs(..).collect::<Result<_, _>>(): the DER of every
\* certificate section, in order, or the first error of the reader.
RECURSIVE certs(_)
certs(rd) ==
    LET r == read_one(rd) IN
    IF ~r.res.ok THEN r.res
    ELSE IF r.res.val = None THEN Ok(<<>>)
    ELSE LET item == r.res.val[1]
             more == certs(r.rest)
         IN  IF ~more.ok THEN more
             ELSE IF item.kind = "CERTIFICATE" THEN Ok(<<item.der>> \o more.val)
             ELSE more

\* A variant of read_priv_key that takes the last key item of the bytes.
RECURSIVE read_priv_key_last(_)
read_priv_key_last(rd) ==
    LET r == read_one(rd) IN
    IF ~r.res.ok THEN r.res
    ELSE IF r.res.val = None THEN Err("failed to parse tls private keys")
    ELSE LET more == read_priv_key_last(r.rest) IN
         IF more.ok THEN more
         ELSE IF r.res.val[1].kind \in KeyKinds /\ more = Err("failed to parse tls private keys")
              THEN Ok(r.res.val[1].der)
         ELSE more

\* The loop of create_certificate_key over the key bytes: the first
\* PKCS#1, PKCS#8 or SEC1 item; other items are passed over.
RECURSIVE read_priv_key(_)
read_priv_key(rd) ==
    LET r == read_one(rd) IN
    IF ~r.res.ok THEN r.res
    ELSE IF r.res.val = None THEN Err("failed to parse tls private keys")
    ELSE IF r.res.val[1].kind \in KeyKinds THEN Ok(r.res.val[1].der)
    ELSE read_priv_key(r.rest)

\* aws_lc_rs::sign::any_supported_type as used by create_certificate_key.
any_supported_type(priv_key) ==
    IF priv_key.valid THEN Ok(priv_key.id) ELSE Err("invalid private key")

\* RustlsCertificate (Default: all three fields empty).
RustlsCertificate(cert, key, ocsp_resp) ==
    [cert |-> cert, key |-> key, ocsp_resp |-> ocsp_resp]

DefaultCertificate == RustlsCertificate(<<>>, <<>>, <<>>)

\* A variant of ocsp that staples the response bytes even when they are empty.
ocsp_always(ocsp_resp) == Some(ocsp_resp)

\* The ocsp field of the CertifiedKey of create_certificate_key.
ocsp(ocsp_resp) == IF ocsp_resp # <<>> THEN Some(ocsp_resp) ELSE None

\* RustlsCertificate::create_certificate_key
create_certificate_key(d) ==
    LET cert == certs(d.cert) IN
    IF ~cert.ok THEN Err("failed to parse tls certificates")
    ELSE LET priv_key == read_priv_key(d.key) IN
         IF ~priv_key.ok THEN priv_key
         ELSE LET key == any_supported_type(priv_key.val) IN
              IF ~key.ok THEN key
              ELSE Ok([cert |-> cert.val,
                       key |-> key.val,
                       ocsp |-> ocsp(d.ocsp_resp)])

(***************************************************************************)
(* RustlsConfig and its builder methods.  certificates is the HashMap from *)
(* SNI name to descriptor, a function on the set of its keys.              *)
(***************************************************************************)
TlsClientAuth(mode, trust_anchor) == [mode |-> mode, trust_anchor |-> trust_anchor]

\* RustlsConfig::new
RustlsConfigNew ==
    [certificates |-> <<>>, fallback |-> None, client_auth |-> TlsClientAuth("Off", <<>>)]

\* RustlsConfig::fallback
fallback(c, certificate) == [c EXCEPT !.fallback = Some(certificate)]

\* RustlsConfig::certificate (HashMap::insert)
certificate(c, name, d) ==
    [c EXCEPT !.certificates =
        [n \in (DOMAIN c.certificates) \cup {name} |->
            IF n = name THEN d ELSE c.certificates[n]]]

\* RustlsConfig::client_auth_optional
client_auth_optional(c, trust_anchor) ==
    [c EXCEPT !.client_auth = TlsClientAuth("Optional", trust_anchor)]

\* RustlsConfig::client_auth_required
client_auth_required(c, trust_anchor) ==
    [c EXCEPT !.client_auth = TlsClientAuth("Required", trust_anchor)]

\* RustlsConfig::cert (deprecated)
cert(c, bytes) ==
    IF c.fallback # None
    THEN [c EXCEPT !.fallback = Some([c.fallback[1] EXCEPT !.cert = bytes])]
    ELSE [c EXCEPT !.fallback = Some([DefaultCertificate EXCEPT !.cert = bytes])]

\* RustlsConfig::key (deprecated)
key(c, bytes) ==
    IF c.fallback # None
    THEN [c EXCEPT !.fallback = Some([c.fallback[1] EXCEPT !.key = bytes])]
    ELSE [c EXCEPT !.fallback = Some([DefaultCertificate EXCEPT !.key = bytes])]

\* RustlsConfig::ocsp_resp (deprecated)
ocsp_resp(c, bytes) ==
    IF c.fallback # None
    THEN [c EXCEPT !.fallback = Some([c.fallback[1] EXCEPT !.ocsp_resp = bytes])]
    ELSE [c EXCEPT !.fallback = Some([DefaultCertificate EXCEPT !.ocsp_resp = bytes])]

\* A variant of read_trust_anchor that leaves out the entries it cannot use.
RECURSIVE read_trust_anchor_lenient(_)
read_trust_anchor_lenient(rd) ==
    IF rd = <<>> THEN Ok({})
    ELSE LET more == read_trust_anchor_lenient(Tail(rd)) IN
         IF Head(rd).wf /\ Head(rd).kind = "CERTIFICATE" /\ Head(rd).der.valid
         THEN Ok({Head(rd).der.id} \cup more.val)
         ELSE more

\* read_trust_anchor: the root store of the certificates of the anchor, in
\* order; the first section that does not decode, or the first certificate
\* RootCertStore::add refuses, is the error.
RECURSIVE read_trust_anchor(_)
read_trust_anchor(rd) ==
    LET r == read_one(rd) IN
    IF ~r.res.ok THEN r.res
    ELSE IF r.res.val = None THEN Ok({})
    ELSE LET item == r.res.val[1] IN
         IF item.kind # "CERTIFICATE" THEN read_trust_anchor(r.rest)
         ELSE IF ~item.der.valid THEN Err("invalid trust anchor certificate")
         ELSE LET more == read_trust_anchor(r.rest) IN
              IF more.ok THEN Ok({item.der.id} \cup more.val) ELSE more

\* WebPkiClientVerifier::builder(roots)[.allow_unauthenticated()].build()
WebPkiClientVerifier(roots, allow_unauthenticated) ==
    IF roots = {} THEN Err("no root trust anchors were provided")
    ELSE Ok([offer_client_auth |-> TRUE,
             client_auth_mandatory |-> ~allow_unauthenticated,
             roots |-> roots])

\* A variant of client_cert_verifier that leaves out allow_unauthenticated.
client_cert_verifier_strict(client_auth) ==
    IF client_auth.mode = "Off"
    THEN Ok([offer_client_auth |-> FALSE, client_auth_mandatory |-> FALSE, roots |-> {}])
    ELSE LET store == read_trust_anchor(client_auth.trust_anchor) IN
         IF ~store.ok THEN store
         ELSE WebPkiClientVerifier(store.val, FALSE)

\* The match on client_auth of create_server_config.
client_cert_verifier(client_auth) ==
    IF client_auth.mode = "Off"
    THEN Ok([offer_client_auth |-> FALSE, client_auth_mandatory |-> FALSE, roots |-> {}])
    ELSE LET store == read_trust_anchor(client_auth.trust_anchor) IN
         IF ~store.ok THEN store
         ELSE WebPkiClientVerifier(store.val, client_auth.mode = "Optional")

\* The fallback of create_server_config: map(create_certificate_key).transpose()?
compile_fallback(c) ==
    IF c.fallback = None THEN Ok(None)
    ELSE LET r == create_certificate_key(c.fallback[1]) IN
         IF r.ok THEN Ok(Some(r.val)) ELSE r

\* A variant of compile_certificates that keeps the entries that compile.
compile_certificates_lenient(c) ==
    LET names == {n \in DOMAIN c.certificates : create_certificate_key(c.certificates[n]).ok}
    IN  {Ok([n \in names |-> create_certificate_key(c.certificates[n]).val])}

\* The loop of create_server_config over self.certificates: the compiled
\* map, or the error of the first entry that fails.  A HashMap is iterated in
\* no fixed order, so any failing entry can be the first: the set of the
\* possible outcomes.
compile_certificates(c) ==
    LET names == DOMAIN c.certificates
        bad == {n \in names : ~create_certificate_key(c.certificates[n]).ok}
    IN  IF bad # {}
        THEN {create_certificate_key(c.certificates[n]) : n \in bad}
        ELSE {Ok([n \in names |-> create_certificate_key(c.certificates[n]).val])}

\* A variant of alpn_protocols that prefers HTTP/1.1.
alpn_protocols_http1_first == <<"http/1.1", "h2">>

\* The ALPN protocols create_server_config sets on the ServerConfig.
alpn_protocols == <<"h2", "http/1.1">>

\* RustlsConfig::create_server_config: the set of its possible results.
create_server_config(c) ==
    LET fb == compile_fallback(c) IN
    IF ~fb.ok THEN {fb}
    ELSE {IF ~keys.ok THEN keys
          ELSE LET verifier == client_cert_verifier(c.client_auth) IN
               IF ~verifier.ok THEN verifier
               ELSE Ok([verifier |-> verifier.val,
                        cert_resolver |-> [certificate_keys |-> keys.val,
                                           fallback |-> fb.val],
                        alpn_protocols |-> alpn_protocols])
          : keys \in compile_certificates(c)}

\* A variant of resolve that falls back on a wildcard entry of the domain.
resolve_wildcard(resolver, server_name) ==
    IF server_name # None /\ server_name[1] \in DOMAIN resolver.certificate_keys
    THEN Some(resolver.certificate_keys[server_name[1]])
    ELSE IF server_name # None /\ "*.com" \in DOMAIN resolver.certificate_keys
    THEN Some(resolver.certificate_keys["*.com"])
    ELSE resolver.fallback

\* ResolveServerCert::resolve; server_name is ClientHello::server_name().
resolve(resolver, server_name) ==
    IF server_name # None /\ server_name[1] \in DOMAIN resolver.certificate_keys
    THEN Some(resolver.certificate_keys[server_name[1]])
    ELSE resolver.fallback

(***************************************************************************)
(* The TLS handshake of one accepted connection, as far as this listener   *)
(* decides it: the certificate the resolver picks for the client's server  *)
(* name and the client-certificate policy of the verifier.  A client is    *)
(* [server_name, cert]: the SNI it sends (or None) and the issuer of the   *)
(* certificate it presents (or None).                                      *)
(***************************************************************************)
Client(server_name, client_cert) == [server_name |-> server_name, cert |-> client_cert]

\* The verifier's decision on the client certificate.
client_auth_ok(verifier, client) ==
    IF ~verifier.offer_client_auth THEN TRUE
    ELSE IF client.cert = None THEN ~verifier.client_auth_mandatory
    ELSE client.cert[1] \in verifier.roots

\* The server certificate is one a client can verify the handshake with: a
\* chain that is not empty and whose leaf belongs to the signing key.
usable(certified_key) ==
    /\ certified_key.cert # <<>>
    /\ certified_key.cert[1].valid
    /\ certified_key.cert[1].id = certified_key.key

\* tokio_rustls::TlsAcceptor::accept driven to its end with server_config.
handshake(server_config, client) ==
    LET picked == resolve(server_config.cert_resolver, client.server_name) IN
    IF picked = None THEN [state |-> "failed", cert |-> None]
    ELSE IF ~client_auth_ok(server_config.verifier, client)
         THEN [state |-> "failed", cert |-> picked]
    ELSE IF ~usable(picked[1]) THEN [state |-> "failed", cert |-> picked]
    ELSE [state |-> "ok", cert |-> picked]

(***************************************************************************)
(* The inputs of the model.                                                *)
(***************************************************************************)
Names == {"a.com", "b.com", "*.com"}

\* Key pair 1 is cert1/key1 of the test, root 9 the trust anchor of clients.
cert1 == <<Cert(1)>>
key1 == <<Pkcs8(1)>>
cert2 == <<Cert(2), Cert(3)>>
key2 == <<Cert(2), Block("DH PARAMETERS", TRUE, 0, TRUE), Sec1(2)>>
key3 == <<Cert(2), Pkcs1(1), Block("PRIVATE KEY", FALSE, 2, TRUE), Sec1(2)>>

CertFiles ==
    {cert1, cert2, <<>>, <<Pkcs8(1)>>, <<Block("CERTIFICATE", FALSE, 1, TRUE)>>}

KeyFiles ==
    {key1, key2, key3, <<>>, <<Cert(1)>>,
     <<Block("PRIVATE KEY", TRUE, 1, FALSE)>>,
     <<Block("PRIVATE KEY", FALSE, 1, TRUE)>>}

OcspFiles == {<<>>, <<7>>}

Good1 == RustlsCertificate(cert1, key1, <<>>)
Good2 == RustlsCertificate(cert2, key2, <<7>>)
Good3 == RustlsCertificate(cert1, key1, <<7>>)
Mismatched == RustlsCertificate(cert1, key2, <<>>)
NoCert == RustlsCertificate(<<>>, key1, <<>>)
BadCert == RustlsCertificate(<<Cert(1), Block("CERTIFICATE", FALSE, 1, TRUE)>>, key1, <<>>)
NoKey == RustlsCertificate(cert1, <<Cert(1)>>, <<>>)
UnsupportedKey == RustlsCertificate(cert1, <<Block("PRIVATE KEY", TRUE, 1, FALSE)>>, <<>>)

Descriptors == {Good1, Good2, Good3, Mismatched, NoCert, BadCert, NoKey, UnsupportedKey}

AnchorOk == <<Cert(9)>>
AnchorInvalidEntry == <<Cert(9), Block("CERTIFICATE", TRUE, 8, FALSE)>>
AnchorMalformedEntry == <<Block("CERTIFICATE", FALSE, 9, TRUE), Cert(9)>>

Anchors == {AnchorOk, AnchorInvalidEntry, AnchorMalformedEntry, <<>>}

ServerNames == {None, Some("a.com"), Some("c.com")}
ClientCerts == {None, Some(9), Some(8)}
Clients == {Client(n, c) : n \in ServerNames, c \in ClientCerts}

(***************************************************************************)
(* The configurations a listener is given: one static RustlsConfig, or the *)
(* items a stream of configurations yields.                                *)
(***************************************************************************)
Fallback1 == fallback(RustlsConfigNew, Good1)
Sni2 == certificate(certificate(fallback(RustlsConfigNew, Good2), "a.com", Good1), "*.com", Good2)
OneBadEntry == certificate(certificate(Fallback1, "a.com", Good2), "b.com", NoKey)
RequiredBadAnchor == client_auth_required(Fallback1, AnchorInvalidEntry)
OptionalBadAnchor == client_auth_optional(Sni2, AnchorMalformedEntry)

\* No fallback, and every client must present a certificate.
SniRequired ==
    client_auth_required(certificate(RustlsConfigNew, "a.com", Good2), AnchorOk)

FeedConfigs == {Sni2, SniRequired, OneBadEntry, RequiredBadAnchor, OptionalBadAnchor}

StaticConfigs == {Fallback1, Sni2, OneBadEntry}

\* What the inner acceptor's accept returns for a connection: the raw
\* stream (the client at its other end), the addresses and the scheme.
Accepted(stream, local_addr, remote_addr, scheme) ==
    [stream |-> stream, local_addr |-> local_addr, remote_addr |-> remote_addr,
     scheme |-> scheme]

\* The addresses the inner acceptor is bound to (Acceptor::local_addr).
InnerLocalAddr == <<"127.0.0.1:3000", "unix:/tmp/poem.sock">>

FeedConns ==
    {Accepted(Client(Some("a.com"), None), InnerLocalAddr[1], "10.0.0.1:5001", "http"),
     Accepted(Client(Some("c.com"), None), InnerLocalAddr[2], "unnamed", "https")}

(***************************************************************************)
(* State.                                                                  *)
(*   pc                    where the task owning the listener is:          *)
(*                         "listener" (before into_acceptor), "failed"     *)
(*                         (into_acceptor returned an error), "acceptor"   *)
(*                         (it has the acceptor), "panicked", "idle"       *)
(*                         (between accept calls), "select" (inside        *)
(*                         accept, at the select!), "build" (building a    *)
(*                         RustlsConfig)                                   *)
(*   listener              RustlsListener.config_stream                    *)
(*   config_stream         the items the stream has ready; the chained     *)
(*                         pending() stream never yields                   *)
(*   current_tls_acceptor  RustlsAcceptor.current_tls_acceptor             *)
(*   inner                 the events the inner acceptor has ready         *)
(*   handshakes            the HandshakeStreams returned so far            *)
(*   returned              the results of the accept calls, in order       *)
(*   default_provider      the process-wide CryptoProvider                 *)
(*   stream_ended          the listener's stream of configurations has     *)
(*                         yielded its last item                           *)
(*   local_addrs           what RustlsAcceptor::local_addr returned        *)
(*   config, server_config a RustlsConfig under construction and the       *)
(*                         result of create_server_config on it            *)
(*   certified_key         the local `fallback` of create_server_config    *)
(*   hello                 a handshake run against server_config           *)
(* History, for stating the properties:                                    *)
(*   consumed              the items taken from config_stream, each with   *)
(*                         the result of compiling it                      *)
(*   epoch, finished       (fields of returned and handshakes) the length  *)
(*                         of consumed when the connection was accepted    *)
(*                         and when its handshake ended                    *)
(*   exhausted             (field of returned) the stream had ended and    *)
(*                         all its items were consumed when accept         *)
(*                         returned                                        *)
(*   calls                 the client_auth_* methods called on config, in  *)
(*                         order                                           *)
(*   n                     counters bounding the environment               *)
(* Outside the listener:                                                   *)
(*   threads               the threads inside make_server_config_builder:  *)
(*                         where each is, and the provider it builds with  *)
(*   conversion            the conversion into Error or into poem::Result  *)
(*                         that was called, with its arguments             *)
(*   error                 the Error it made                               *)
(*   converted             the poem::Result into_result returned           *)
(*   response              as_response of the Error                        *)
(*   request_body          the body of a request with a Base64 payload     *)
(*   payload               what from_request made of it                    *)
(*   download              the response made of the payload                *)
(***************************************************************************)
VARIABLES pc, listener, config_stream, current_tls_acceptor, inner, handshakes,
          returned, default_provider, config, server_config, certified_key,
          hello, consumed, calls, n, stream_ended, local_addrs, threads,
          conversion, error, converted, response, downcasted, request_body, payload,
          download, sent, wire, received

vars == <<pc, listener, config_stream, current_tls_acceptor, inner, handshakes,
          returned, default_provider, config, server_config, certified_key,
          hello, consumed, calls, n, stream_ended, local_addrs, threads,
          conversion, error, converted, response, downcasted, request_body, payload,
          download, sent, wire, received>>

errorVars == <<conversion, error, converted, response, downcasted>>

payloadVars == <<request_body, payload, download>>

messageVars == <<sent, wire, received>>

otherVars == <<threads, errorVars, payloadVars, messageVars>>

acceptorVars == <<listener, config_stream, current_tls_acceptor, inner, handshakes,
                  returned, consumed, n, stream_ended, local_addrs>>

builderVars == <<config, server_config, certified_key, hello, calls>>

\* make_server_config_builder: install the default provider if none is set.
make_server_config_builder(provider) ==
    IF provider = None THEN Some("aws_lc_rs") ELSE provider

\* Variants of install: one that drops the active configuration when an
\* item does not compile, one that never replaces it.
install_or_clear(current, result) ==
    IF result.ok THEN Some(result.val) ELSE None

install_never(current, result) == current

\* The match on the result of create_server_config in accept: the new value
\* of current_tls_acceptor.
install(current, result) ==
    IF result.ok THEN Some(result.val) ELSE current

\* A variant of accept_branch that looks at the configuration before the
\* event of the inner acceptor.
accept_branch_config_first(current, res, stream) ==
    IF current = None THEN Err("no valid tls config.")
    ELSE IF ~res.ok THEN res
    ELSE Ok([io |-> stream,
             local_addr |-> res.val.local_addr,
             remote_addr |-> res.val.remote_addr,
             scheme |-> "https"])

\* A variant of accept_branch that passes the scheme of the inner acceptor on.
accept_branch_inner_scheme(current, res, stream) ==
    IF ~res.ok THEN res
    ELSE IF current = None THEN Err("no valid tls config.")
    ELSE Ok([io |-> stream,
             local_addr |-> res.val.local_addr,
             remote_addr |-> res.val.remote_addr,
             scheme |-> res.val.scheme])

\* The accept branch of the select!: what accept returns for the event res
\* of the inner acceptor; stream is the handshake stream it would wrap.
accept_branch(current, res, stream) ==
    IF ~res.ok THEN res
    ELSE IF current = None THEN Err("no valid tls config.")
    ELSE Ok([io |-> stream,
             local_addr |-> res.val.local_addr,
             remote_addr |-> res.val.remote_addr,
             scheme |-> "https"])

\* RustlsAcceptor::local_addr
local_addr(inner_local_addr) == inner_local_addr

\* A variant of config_stream_next for a stream that is not chained with
\* pending(): it reports its end.
config_stream_next_unchained(items, ended) ==
    IF items # <<>> THEN [poll |-> "ready", item |-> Some(Head(items))]
    ELSE IF ended THEN [poll |-> "ready", item |-> None]
    ELSE [poll |-> "pending", item |-> None]

\* self.config_stream.next(), config_stream being the listener's stream
\* chained with stream::pending(): the next item when the listener's stream
\* has one ready, and pending in every other case, also when that stream
\* has ended.  items are the items ready, ended says the stream yields no
\* more after them.
config_stream_next(items, ended) ==
    IF items # <<>> THEN [poll |-> "ready", item |-> Some(Head(items))]
    ELSE [poll |-> "pending", item |-> None]

\* A variant of HandshakeStream_new for an accept that awaits the handshake.
HandshakeStream_awaited(client, acceptor_config, epoch) ==
    LET done == handshake(acceptor_config, client) IN
    [client |-> client, config |-> acceptor_config, epoch |-> epoch,
     state |-> done.state, cert |-> done.cert, finished |-> epoch]

\* HandshakeStream::new(tls_acceptor.accept(stream)): the stream accept
\* returns holds the handshake future, which nothing has polled yet.
HandshakeStream_new(client, acceptor_config, epoch) ==
    [client |-> client, config |-> acceptor_config, epoch |-> epoch,
     state |-> "handshaking", cert |-> None, finished |-> 0]

\* A variant of handshake_config that reads the acceptor's configuration
\* when the handshake runs.
handshake_config_live(h) ==
    IF current_tls_acceptor # None THEN current_tls_acceptor[1] ELSE h.config

\* The configuration a handshake stream runs against: the Arc<ServerConfig>
\* the TlsAcceptor held when tls_acceptor.accept(stream) was called.
handshake_config(h) == h.config

\* No thread is inside make_server_config_builder.
NoThreads == threads = <<>>

\* No conversion into Error was called.
NoConversion ==
    /\ conversion = None
    /\ error = None
    /\ converted = None
    /\ response = None
    /\ downcasted = None

\* No request with a Base64 payload was received.
NoPayload == request_body = None /\ payload = None /\ download = None

\* No WebSocket message was converted.
NoMessage == sent = None /\ wire = None /\ received = None

InitOther == NoThreads /\ NoConversion /\ NoPayload /\ NoMessage

InitCommon ==
    /\ config_stream = <<>>
    /\ current_tls_acceptor = None
    /\ inner = <<>>
    /\ handshakes = <<>>
    /\ returned = <<>>
    /\ default_provider = None
    /\ config = RustlsConfigNew
    /\ server_config = None
    /\ certified_key = None
    /\ hello = None
    /\ consumed = <<>>
    /\ calls = <<>>
    /\ n = [feed |-> 0, inner |-> 0, calls |-> 0, build |-> 0]
    /\ stream_ended = FALSE
    /\ local_addrs = None

\* TcpListener::bind(..).rustls(config) with a static configuration or with
\* a stream of configurations.
Init ==
    /\ pc = "listener"
    /\ listener \in {[static |-> TRUE, config |-> Some(c)] : c \in StaticConfigs}
                    \cup {[static |-> FALSE, config |-> None]}
    /\ InitCommon
    /\ InitOther

\* A variant of into_stream whose check moves the certificates out of the
\* configuration.
into_stream_drained(c) == <<[c EXCEPT !.fallback = None, !.certificates = <<>>]>>

\* IntoTlsConfigStream::into_stream of a RustlsConfig that compiled: the
\* stream of its one item.
into_stream(c) == <<c>>

\* RustlsListener::into_acceptor of a static configuration: into_stream
\* compiles it once and fails the activation if it does not compile.
IntoAcceptorStatic ==
    /\ pc = "listener"
    /\ listener.static
    /\ \E r \in create_server_config(listener.config[1]) :
          IF r.ok
          THEN /\ pc' = "acceptor"
               /\ config_stream' = into_stream(listener.config[1])
               /\ stream_ended' = TRUE
          ELSE /\ pc' = "failed"
               /\ UNCHANGED <<config_stream, stream_ended>>
    /\ default_provider' = make_server_config_builder(default_provider)
    /\ current_tls_acceptor' = None
    /\ UNCHANGED <<listener, inner, handshakes, returned, consumed, n, local_addrs>>
    /\ UNCHANGED builderVars
    /\ UNCHANGED otherVars

\* RustlsListener::into_acceptor of a stream: nothing is compiled.
IntoAcceptorStream ==
    /\ pc = "listener"
    /\ ~listener.static
    /\ pc' = "acceptor"
    /\ config_stream' = <<>>
    /\ current_tls_acceptor' = None
    /\ UNCHANGED <<listener, inner, handshakes, returned, consumed, n, default_provider,
                   stream_ended, local_addrs>>
    /\ UNCHANGED builderVars
    /\ UNCHANGED otherVars

\* The owner of the new acceptor asks for its addresses before it accepts.
LocalAddr ==
    /\ pc = "acceptor"
    /\ pc' = "idle"
    /\ local_addrs' = Some(local_addr(InnerLocalAddr))
    /\ UNCHANGED <<listener, config_stream, current_tls_acceptor, inner, handshakes,
                   returned, consumed, n, default_provider, stream_ended>>
    /\ UNCHANGED builderVars
    /\ UNCHANGED otherVars

\* The stream of configurations yields an item.
StreamYield(c) ==
    /\ pc \in {"idle", "select"}
    /\ ~listener.static
    /\ ~stream_ended
    /\ n.feed < MaxFeed
    /\ config_stream' = Append(config_stream, c)
    /\ n' = [n EXCEPT !.feed = @ + 1]
    /\ UNCHANGED <<pc, listener, current_tls_acceptor, inner, handshakes, returned,
                   consumed, default_provider, stream_ended, local_addrs>>
    /\ UNCHANGED builderVars
    /\ UNCHANGED otherVars

\* The stream of configurations ends.
StreamEnd ==
    /\ pc \in {"idle", "select"}
    /\ ~listener.static
    /\ ~stream_ended
    /\ stream_ended' = TRUE
    /\ UNCHANGED <<pc, listener, config_stream, current_tls_acceptor, inner, handshakes,
                   returned, consumed, n, default_provider, local_addrs>>
    /\ UNCHANGED builderVars
    /\ UNCHANGED otherVars

\* A client's connection arrives at the inner acceptor.
ClientConnect(conn) ==
    /\ pc \in {"idle", "select"}
    /\ n.inner < MaxInner
    /\ inner' = Append(inner, Ok(conn))
    /\ n' = [n EXCEPT !.inner = @ + 1]
    /\ UNCHANGED <<pc, listener, config_stream, current_tls_acceptor, handshakes,
                   returned, consumed, default_provider, stream_ended, local_addrs>>
    /\ UNCHANGED builderVars
    /\ UNCHANGED otherVars

\* The inner acceptor has an I/O error to report.
InnerError ==
    /\ pc \in {"idle", "select"}
    /\ n.inner < MaxInner
    /\ inner' = Append(inner, Err("inner accept failed"))
    /\ n' = [n EXCEPT !.inner = @ + 1]
    /\ UNCHANGED <<pc, listener, config_stream, current_tls_acceptor, handshakes,
                   returned, consumed, default_provider, stream_ended, local_addrs>>
    /\ UNCHANGED builderVars
    /\ UNCHANGED otherVars

\* The caller calls RustlsAcceptor::accept.
CallAccept ==
    /\ pc = "idle"
    /\ n.calls < MaxCalls
    /\ pc' = "select"
    /\ n' = [n EXCEPT !.calls = @ + 1]
    /\ UNCHANGED <<listener, config_stream, current_tls_acceptor, inner, handshakes,
                   returned, consumed, default_provider, stream_ended, local_addrs>>
    /\ UNCHANGED builderVars
    /\ UNCHANGED otherVars

\* A variant of select in which the branches are polled in the order they
\* are written (`biased;`).
select_biased(config_ready, accept_ready) ==
    IF config_ready THEN {"config"} ELSE IF accept_ready THEN {"accept"} ELSE {}

\* tokio::select! over the two branches: the branches one of which is
\* taken.  The branches are polled in a random order, so any that is ready
\* may be the one.
select(config_ready, accept_ready) ==
    {b \in {"config"} : config_ready} \cup {b \in {"accept"} : accept_ready}

\* The branches of the select! of accept in the current state.
Selected ==
    select(config_stream_next(config_stream, stream_ended).poll = "ready", inner # <<>>)

\* A variant of after_config_branch in which accept gives up on an item
\* that does not compile.
after_config_branch_return_on_error(result) == IF result.ok THEN "select" ELSE "idle"

\* Where accept is after the config branch handled an item: the branch has
\* no return and no break, the loop runs the select! again.
after_config_branch(result) == "select"

\* The last k entries of a history.
Recent(seq, k) ==
    IF Len(seq) <= k THEN seq ELSE SubSeq(seq, Len(seq) - k + 1, Len(seq))

\* accept, the branch `res = self.config_stream.next()` of the select!: the
\* item is compiled, installed if it compiled, and the loop goes round; on
\* the end of the stream the branch is unreachable!() and the task panics.
\* The history consumed is kept to its last k entries.
ConfigBranch(k) ==
    /\ pc = "select"
    /\ "config" \in Selected
    /\ LET res == config_stream_next(config_stream, stream_ended) IN
       /\ res.poll = "ready"
       /\ IF res.item # None
          THEN /\ \E r \in create_server_config(res.item[1]) :
                     /\ current_tls_acceptor' = install(current_tls_acceptor, r)
                     /\ consumed' = Recent(Append(consumed, [config |-> res.item[1],
                                                             result |-> r]), k)
                     /\ pc' = after_config_branch(r)
               /\ config_stream' = Tail(config_stream)
               /\ default_provider' = make_server_config_builder(default_provider)
          ELSE /\ pc' = "panicked"
               /\ UNCHANGED <<current_tls_acceptor, consumed, config_stream,
                              default_provider>>
    /\ UNCHANGED <<listener, inner, handshakes, returned, stream_ended, local_addrs>>
    /\ UNCHANGED builderVars
    /\ UNCHANGED otherVars

\* The config branch of an acceptor whose feed has at most MaxFeed items:
\* the history is whole.
ConfigEvent == ConfigBranch(MaxFeed) /\ UNCHANGED n

\* A variant of inner_accept after which the connection is still with the
\* acceptor.
inner_accept_kept(events) == [res |-> Head(events), rest |-> events]

\* self.inner.accept(): the first event the inner acceptor has ready, which
\* is then no longer with it.
inner_accept(events) == [res |-> Head(events), rest |-> Tail(events)]

\* accept, the branch `res = self.inner.accept()` of the select!: accept
\* returns the inner error, the error of the unconfigured acceptor, or the
\* handshake stream begun with the current configuration.
AcceptEvent ==
    /\ pc = "select"
    /\ inner # <<>>
    /\ "accept" \in Selected
    /\ LET res == inner_accept(inner).res
           out == accept_branch(current_tls_acceptor, res, Len(handshakes) + 1)
       IN  /\ returned' = Append(returned, [event |-> res,
                                            epoch |-> Len(consumed),
                                            exhausted |-> stream_ended /\ config_stream = <<>>,
                                            result |-> out])
           /\ handshakes' =
                 IF out.ok
                 THEN Append(handshakes, HandshakeStream_new(res.val.stream,
                                                             current_tls_acceptor[1],
                                                             Len(consumed)))
                 ELSE handshakes
    /\ inner' = inner_accept(inner).rest
    /\ pc' = "idle"
    /\ UNCHANGED <<listener, config_stream, current_tls_acceptor, consumed, n,
                   default_provider, stream_ended, local_addrs>>
    /\ UNCHANGED builderVars
    /\ UNCHANGED otherVars

\* The holder of a returned stream reads or writes it: the handshake runs to
\* its end, against the configuration the stream was begun with.
Handshake(i) ==
    /\ i <= Len(handshakes)
    /\ handshakes[i].state = "handshaking"
    /\ LET done == handshake(handshake_config(handshakes[i]), handshakes[i].client) IN
       handshakes' = [handshakes EXCEPT ![i].state = done.state,
                                        ![i].cert = done.cert,
                                        ![i].finished = Len(consumed)]
    /\ UNCHANGED <<pc, listener, config_stream, current_tls_acceptor, inner, returned,
                   consumed, n, default_provider, stream_ended, local_addrs>>
    /\ UNCHANGED builderVars
    /\ UNCHANGED otherVars

Next ==
    \/ IntoAcceptorStatic
    \/ IntoAcceptorStream
    \/ LocalAddr
    \/ \E c \in FeedConfigs : StreamYield(c)
    \/ StreamEnd
    \/ \E conn \in FeedConns : ClientConnect(conn)
    \/ InnerError
    \/ CallAccept
    \/ ConfigEvent
    \/ AcceptEvent
    \/ \E i \in 1..MaxInner : Handshake(i)

Spec == Init /\ [][Next]_vars

(***************************************************************************)
(* The accept loop with a stream of configurations that never ends and is  *)
(* ready again as soon as its item is taken.  select! picks the branch it  *)
(* polls first at random on every turn of the loop, so a branch that stays *)
(* ready is taken in the end: weak fairness of the accept branch.          *)
(***************************************************************************)
InitFair ==
    /\ pc = "listener"
    /\ listener = [static |-> FALSE, config |-> None]
    /\ InitCommon
    /\ InitOther

\* The stream has its next item ready.
StreamYieldForever(c) ==
    /\ pc \in {"idle", "select"}
    /\ config_stream = <<>>
    /\ config_stream' = <<c>>
    /\ UNCHANGED <<pc, listener, current_tls_acceptor, inner, handshakes, returned,
                   consumed, n, default_provider, stream_ended, local_addrs>>
    /\ UNCHANGED builderVars
    /\ UNCHANGED otherVars

\* The config branch; of the history only the last item is kept.
ConfigEventForever == ConfigBranch(1) /\ UNCHANGED n

NextFair ==
    \/ IntoAcceptorStream
    \/ LocalAddr
    \/ \E c \in FeedConfigs : StreamYieldForever(c)
    \/ \E conn \in FeedConns : ClientConnect(conn)
    \/ InnerError
    \/ CallAccept
    \/ ConfigEventForever
    \/ AcceptEvent

SpecFair == InitFair /\ [][NextFair]_vars /\ WF_vars(AcceptEvent)

(***************************************************************************)
(* Building a RustlsConfig with its builder methods, compiling it, and     *)
(* running handshakes against the compiled configuration.                  *)
(***************************************************************************)
BuilderCertificates == {Good2, Good3, NoKey, UnsupportedKey}

InitCfg ==
    /\ pc = "build"
    /\ listener = [static |-> FALSE, config |-> None]
    /\ InitCommon
    /\ InitOther

Built(c) ==
    /\ pc = "build"
    /\ n.build < MaxBuild
    /\ config' = c
    /\ n' = [n EXCEPT !.build = @ + 1]
    /\ UNCHANGED <<pc, server_config, certified_key, hello, default_provider>>
    /\ UNCHANGED <<listener, config_stream, current_tls_acceptor, inner, handshakes,
                   returned, consumed, stream_ended, local_addrs>>
    /\ UNCHANGED otherVars

SetFallback(d) == Built(fallback(config, d)) /\ UNCHANGED calls

SetCertificate(name, d) == Built(certificate(config, name, d)) /\ UNCHANGED calls

SetClientAuthOptional(trust_anchor) ==
    /\ Built(client_auth_optional(config, trust_anchor))
    /\ calls' = Append(calls, "client_auth_optional")

SetClientAuthRequired(trust_anchor) ==
    /\ Built(client_auth_required(config, trust_anchor))
    /\ calls' = Append(calls, "client_auth_required")

SetCert(bytes) == Built(cert(config, bytes)) /\ UNCHANGED calls

SetKey(bytes) == Built(key(config, bytes)) /\ UNCHANGED calls

SetOcspResp(bytes) == Built(ocsp_resp(config, bytes)) /\ UNCHANGED calls

\* create_server_config on the configuration built.
Compile ==
    /\ pc = "build"
    /\ pc' = "compiled"
    /\ certified_key' = Some(compile_fallback(config))
    /\ \E r \in create_server_config(config) : server_config' = Some(r)
    /\ default_provider' = make_server_config_builder(default_provider)
    /\ UNCHANGED <<config, hello, calls>>
    /\ UNCHANGED acceptorVars
    /\ UNCHANGED otherVars

\* A client's handshake against the compiled configuration.
ClientHello(client) ==
    /\ pc = "compiled"
    /\ server_config # None
    /\ server_config[1].ok
    /\ hello' = Some([client |-> client, outcome |-> handshake(server_config[1].val, client)])
    /\ UNCHANGED <<pc, config, server_config, certified_key, calls, default_provider>>
    /\ UNCHANGED acceptorVars
    /\ UNCHANGED otherVars

NextCfg ==
    \/ \E d \in Descriptors : SetFallback(d)
    \/ \E name \in Names, d \in BuilderCertificates : SetCertificate(name, d)
    \/ \E a \in Anchors : SetClientAuthOptional(a)
    \/ \E a \in Anchors : SetClientAuthRequired(a)
    \/ \E bytes \in CertFiles : SetCert(bytes)
    \/ \E bytes \in KeyFiles : SetKey(bytes)
    \/ \E bytes \in OcspFiles : SetOcspResp(bytes)
    \/ Compile
    \/ \E client \in Clients : ClientHello(client)

SpecCfg == InitCfg /\ [][NextCfg]_vars

(***************************************************************************)
(* Threads calling make_server_config_builder at the same time, each step  *)
(* one access to the process-wide provider; the application may install a  *)
(* provider of its own.                                                    *)
(***************************************************************************)
MaxThreads == 3

Threads == 1..MaxThreads

\* CryptoProvider::get_default
get_default(static) == static

\* A variant of install_default that replaces the provider installed.
install_default_replace(static, provider) ==
    [static |-> Some(provider), res |-> Ok(provider)]

\* CryptoProvider::install_default: sets the process-wide provider if none
\* is set, and fails, handing the provider back, if one is.
install_default(static, provider) ==
    IF static = None
    THEN [static |-> Some(provider), res |-> Ok(provider)]
    ELSE [static |-> static, res |-> Err(provider)]

InitProvider ==
    /\ pc = "threads"
    /\ listener = [static |-> FALSE, config |-> None]
    /\ InitCommon
    /\ threads = [t \in Threads |-> [pc |-> "start", install |-> None, provider |-> None]]
    /\ NoConversion
    /\ NoPayload
    /\ NoMessage

\* `if CryptoProvider::get_default().is_none()`
CheckDefault(t) ==
    /\ threads[t].pc = "start"
    /\ threads' = [threads EXCEPT ![t].pc =
                      IF get_default(default_provider) = None THEN "install" ELSE "read"]
    /\ UNCHANGED <<pc, default_provider>>
    /\ UNCHANGED <<acceptorVars, builderVars, errorVars, payloadVars, messageVars>>

\* `let _ = provider.install_default();`
InstallDefault(t) ==
    /\ threads[t].pc = "install"
    /\ LET r == install_default(default_provider, "aws_lc_rs") IN
       /\ default_provider' = r.static
       /\ threads' = [threads EXCEPT ![t].pc = "read", ![t].install = Some(r.res.ok)]
    /\ UNCHANGED pc
    /\ UNCHANGED <<acceptorVars, builderVars, errorVars, payloadVars, messageVars>>

\* `let provider = CryptoProvider::get_default().unwrap();` and the builder
\* made with it.
ReadDefault(t) ==
    /\ threads[t].pc = "read"
    /\ threads' = [threads EXCEPT
                      ![t].pc = IF get_default(default_provider) = None
                                THEN "panicked" ELSE "done",
                      ![t].provider = get_default(default_provider)]
    /\ UNCHANGED <<pc, default_provider>>
    /\ UNCHANGED <<acceptorVars, builderVars, errorVars, payloadVars, messageVars>>

\* The application installs the provider of its choice.
InstallOther ==
    /\ pc = "threads"
    /\ pc' = "application installed"
    /\ default_provider' = install_default(default_provider, "ring").static
    /\ UNCHANGED threads
    /\ UNCHANGED <<acceptorVars, builderVars, errorVars, payloadVars, messageVars>>

NextProvider ==
    \/ \E t \in Threads : CheckDefault(t)
    \/ \E t \in Threads : InstallDefault(t)
    \/ \E t \in Threads : ReadDefault(t)
    \/ InstallOther

SpecProvider == InitProvider /\ [][NextProvider]_vars

(***************************************************************************)
(* Properties of the accept loop.                                          *)
(***************************************************************************)
\* The configuration compiled from the last of the first k consumed items
\* that compiled, None if none of them did.
LastGood(k) ==
    LET good == {j \in 1..k : consumed[j].result.ok} IN
    IF good = {} THEN None
    ELSE Some(consumed[CHOOSE j \in good : \A i \in good : i <= j].result.val)

\* C1: whatever items accept has consumed from the feed, the active TLS
\* acceptor is the one compiled from the last item that compiled (absent if
\* none did), so an item that fails to compile leaves the configuration of
\* the last good item before it in place; and every connection accepted
\* afterwards is handshaken with that configuration.
C1_ActiveIsLastGood ==
    /\ current_tls_acceptor = LastGood(Len(consumed))
    /\ \A i \in 1..Len(handshakes) :
          Some(handshakes[i].config) = LastGood(handshakes[i].epoch)

C1_Witness ==
    /\ Len(consumed) >= 2
    /\ consumed[1].result.ok
    /\ ~consumed[2].result.ok
    /\ current_tls_acceptor = Some(consumed[1].result.val)
    /\ \E i \in 1..Len(handshakes) : handshakes[i].epoch = 2

\* C2: an acceptor made from the static configuration with fallback
\* cert1/key1 returns Ok from its first accept call when a client's
\* connection is what the inner acceptor yields, however the configuration
\* event and the arrival of the connection interleave.
C2_StaticFirstAcceptOk ==
    (/\ listener.static
     /\ listener.config = Some(Fallback1)
     /\ Len(returned) >= 1
     /\ returned[1].event.ok)
    => returned[1].result.ok

\* C3: an accept call whose inner accept yields a connection fails with
\* "no valid tls config." when no item had compiled by then and returns Ok
\* when one had; either way the call returns and the acceptor takes the
\* next call.
C3_UnconfiguredAcceptFails ==
    /\ \A k \in 1..Len(returned) :
          returned[k].event.ok =>
             IF LastGood(returned[k].epoch) = None
             THEN returned[k].result = Err("no valid tls config.")
             ELSE returned[k].result.ok
    /\ pc = "idle" => Len(returned) = n.calls
    /\ pc = "select" => Len(returned) = n.calls - 1

C3_Witness ==
    \E i, j \in 1..Len(returned) :
        /\ i < j
        /\ returned[i].result = Err("no valid tls config.")
        /\ returned[j].result.ok
        /\ pc = "idle"

\* C5: a handshake ends as the configuration that was active when its
\* connection was accepted decides, whatever configuration has been
\* installed since; streams begun under different configurations coexist.
C5_SnapshotPerHandshake ==
    \A i \in 1..Len(handshakes) :
        LET h == handshakes[i] IN
        /\ LastGood(h.epoch) # None
        /\ h.state # "handshaking" =>
              [state |-> h.state, cert |-> h.cert] = handshake(LastGood(h.epoch)[1], h.client)

C5_Witness ==
    \E i, j \in 1..Len(handshakes) :
        LET h == handshakes[i] IN
        /\ h.state # "handshaking"
        /\ LastGood(h.finished) # LastGood(h.epoch)
        /\ [state |-> h.state, cert |-> h.cert] # handshake(LastGood(h.finished)[1], h.client)
        /\ handshakes[j].state = "handshaking"
        /\ handshakes[j].config # h.config

\* An anchor with an entry that does not decode or is no usable certificate.
HasInvalidEntry(trust_anchor) ==
    \E i \in 1..Len(trust_anchor) :
        \/ ~trust_anchor[i].wf
        \/ trust_anchor[i].kind = "CERTIFICATE" /\ ~trust_anchor[i].der.valid

BadAnchor(c) ==
    /\ c.client_auth.mode \in {"Optional", "Required"}
    /\ HasInvalidEntry(c.client_auth.trust_anchor)

\* C10: when accept consumes an item whose mode is Optional or Required and
\* whose trust anchor has an invalid entry, the item fails to compile and the
\* active configuration stays what it was.
C10_BadAnchorRejected ==
    [][(/\ Len(consumed') = Len(consumed) + 1
        /\ BadAnchor(consumed'[Len(consumed')].config))
       => (/\ ~consumed'[Len(consumed')].result.ok
           /\ current_tls_acceptor' = current_tls_acceptor)]_vars

C10_Witness ==
    /\ Len(consumed) >= 2
    /\ consumed[1].result.ok
    /\ BadAnchor(consumed[2].config)
    /\ current_tls_acceptor = Some(consumed[1].result.val)

(***************************************************************************)
(* Properties of configurations and their compilation.                     *)
(***************************************************************************)
\* The compiled certificate of descriptor d.
Compiled(d) == create_certificate_key(d).val

\* C4: the certificate a handshake is given is the one compiled from the
\* entry stored under exactly the server name the client sent, if the
\* client sent a name and there is such an entry; otherwise the compiled
\* fallback, if the configuration has one; otherwise none.  An entry under
\* a wildcard name serves no other name.
C4_ResolveExactOrFallback ==
    hello # None =>
       LET name == hello[1].client.server_name IN
       hello[1].outcome.cert =
          IF name # None /\ name[1] \in DOMAIN config.certificates
          THEN Some(Compiled(config.certificates[name[1]]))
          ELSE IF config.fallback # None THEN Some(Compiled(config.fallback[1]))
          ELSE None

C4_Witness ==
    /\ hello # None
    /\ hello[1].client.server_name = Some("c.com")
    /\ DOMAIN config.certificates = {"a.com", "*.com"}
    /\ config.fallback # None
    /\ hello[1].outcome.cert = Some(Compiled(config.fallback[1]))
    /\ Compiled(config.fallback[1]) # Compiled(config.certificates["*.com"])
    /\ Compiled(config.fallback[1]) # Compiled(config.certificates["a.com"])

\* Some part of configuration c does not compile.
SomePartFails(c) ==
    \/ c.fallback # None /\ ~create_certificate_key(c.fallback[1]).ok
    \/ \E name \in DOMAIN c.certificates : ~create_certificate_key(c.certificates[name]).ok
    \/ ~client_cert_verifier(c.client_auth).ok

\* C6: when the fallback, an entry of certificates or the trust anchor of
\* the configuration does not compile, create_server_config returns an
\* error and no engine configuration.
C6_CompileAllOrNothing ==
    (pc = "compiled" /\ SomePartFails(config)) => ~server_config[1].ok

C6_Witness ==
    /\ pc = "compiled"
    /\ config.fallback # None
    /\ create_certificate_key(config.fallback[1]).ok
    /\ \E good, bad \in DOMAIN config.certificates :
          /\ create_certificate_key(config.certificates[good]).ok
          /\ ~create_certificate_key(config.certificates[bad]).ok
    /\ ~server_config[1].ok

\* The bytes hold no certificate section.
NoCertificateIn(bytes) == \A i \in 1..Len(bytes) : bytes[i].kind # "CERTIFICATE"

\* C7: a fallback descriptor whose cert bytes hold no certificate is
\* rejected when the configuration is compiled.
C7_NoCertificateRejected ==
    (/\ pc = "compiled"
     /\ config.fallback # None
     /\ NoCertificateIn(config.fallback[1].cert))
    => ~certified_key[1].ok

\* The descriptor's cert and key parse, the key is of a supported type.
WellFormedPair(d) ==
    /\ certs(d.cert).ok
    /\ certs(d.cert).val # <<>>
    /\ read_priv_key(d.key).ok
    /\ read_priv_key(d.key).val.valid

KeyMatches(d) == certs(d.cert).val[1].id = read_priv_key(d.key).val.id

\* C8: a well-formed fallback descriptor compiles if and only if its key
\* is the key of its certificate.
C8_MismatchedKeyRejected ==
    (/\ pc = "compiled"
     /\ config.fallback # None
     /\ WellFormedPair(config.fallback[1]))
    => (certified_key[1].ok <=> KeyMatches(config.fallback[1]))

\* The mode the calls made on the configuration leave in force.
ModeInForce ==
    IF calls = <<>> THEN "Off"
    ELSE IF calls[Len(calls)] = "client_auth_optional" THEN "Optional"
    ELSE "Required"

\* The client presents a certificate issued under the configuration's anchor.
ValidClientCert(client) ==
    /\ client.cert # None
    /\ \E i \in 1..Len(config.client_auth.trust_anchor) :
          /\ config.client_auth.trust_anchor[i].kind = "CERTIFICATE"
          /\ config.client_auth.trust_anchor[i].der.id = client.cert[1]

\* What the mode says about a client.
PolicyAccepts(mode, client) ==
    CASE mode = "Off" -> TRUE
      [] mode = "Optional" -> client.cert = None \/ ValidClientCert(client)
      [] mode = "Required" -> ValidClientCert(client)

\* C9: a handshake against the compiled configuration succeeds exactly when
\* the client-certificate mode set by the last client_auth_optional or
\* client_auth_required call (Off if there was none) accepts the client and
\* the server has a usable certificate for it.
C9_ClientAuthPolicy ==
    hello # None =>
       LET out == hello[1].outcome IN
       (out.state = "ok") <=>
          (/\ PolicyAccepts(ModeInForce, hello[1].client)
           /\ out.cert # None
           /\ usable(out.cert[1]))

C9_Witness ==
    /\ hello # None
    /\ Len(calls) = 2
    /\ calls[1] = "client_auth_required"
    /\ calls[2] = "client_auth_optional"
    /\ hello[1].client.cert = None
    /\ hello[1].outcome.state = "ok"

(***************************************************************************)
(* Properties of what accept returns.                                      *)
(***************************************************************************)
Last(seq) == seq[Len(seq)]

\* C11: the step of accept that takes an I/O error from the inner acceptor
\* is the step that returns: the caller gets that very error, nothing else
\* is taken from the inner acceptor or the feed in the step, and the active
\* configuration is what it was.
C11_InnerErrorReturned ==
    [][(inner # <<>> /\ ~Head(inner).ok /\ inner' = Tail(inner)) =>
          /\ pc = "select" /\ pc' = "idle"
          /\ returned' = Append(returned, Last(returned'))
          /\ Last(returned').result = Head(inner)
          /\ current_tls_acceptor' = current_tls_acceptor
          /\ config_stream' = config_stream
          /\ consumed' = consumed
          /\ handshakes' = handshakes]_vars

\* An accept returned the inner error while a configuration was active, and
\* the accept after it returned a connection.
C11_Witness ==
    /\ Len(returned) = 2
    /\ ~returned[1].event.ok
    /\ returned[1].result = returned[1].event
    /\ LastGood(returned[1].epoch) # None
    /\ returned[2].result.ok
    /\ current_tls_acceptor = LastGood(returned[1].epoch)

\* C12: a connection accept returns has the local and the remote address
\* the inner acceptor gave for it and the scheme https, whatever scheme the
\* inner acceptor gave; local_addr returns the inner acceptor's addresses.
C12_AddressesAndScheme ==
    /\ \A i \in 1..Len(returned) :
          returned[i].result.ok =>
             /\ returned[i].result.val.local_addr = returned[i].event.val.local_addr
             /\ returned[i].result.val.remote_addr = returned[i].event.val.remote_addr
             /\ returned[i].result.val.scheme = "https"
    /\ local_addrs # None => local_addrs[1] = InnerLocalAddr

C12_Witness ==
    /\ local_addrs # None
    /\ \E i, j \in 1..Len(returned) :
          /\ returned[i].result.ok
          /\ returned[i].event.val.scheme = "http"
          /\ returned[j].result.ok
          /\ returned[j].event.val.scheme = "https"
          /\ returned[j].result.val.local_addr # returned[i].result.val.local_addr

\* C13: the stream accept returns has not run its handshake; and the step
\* in which a handshake fails changes that one stream only: what accept
\* calls returned, the state of the accept loop, the active configuration,
\* the connections waiting and every other stream are what they were.
C13_HandshakeFailureIsLocal ==
    [][/\ Len(handshakes') > Len(handshakes) =>
             /\ Last(handshakes').state = "handshaking"
             /\ Last(returned').result = Ok([io |-> Len(handshakes'),
                                             local_addr |-> Head(inner).val.local_addr,
                                             remote_addr |-> Head(inner).val.remote_addr,
                                             scheme |-> "https"])
       /\ \A i \in 1..Len(handshakes) :
             (handshakes[i].state = "handshaking" /\ handshakes'[i].state = "failed") =>
                /\ returned' = returned
                /\ pc' = pc
                /\ current_tls_acceptor' = current_tls_acceptor
                /\ inner' = inner
                /\ config_stream' = config_stream
                /\ \A j \in 1..Len(handshakes') : j # i => handshakes'[j] = handshakes[j]
      ]_vars

\* A handshake failed on the client-certificate policy while another stream
\* was still to run its handshake, and that one then succeeded.
C13_Witness ==
    \E i, j \in 1..Len(handshakes) :
        /\ handshakes[i].state = "failed"
        /\ handshakes[i].cert # None
        /\ handshakes[j].state = "ok"
        /\ handshakes[j].finished >= handshakes[i].finished
        /\ \A k \in 1..Len(returned) : returned[k].result.ok
        /\ current_tls_acceptor # None

\* C14: the accept loop never reaches the unreachable!() of the
\* configuration branch, and an accept that returns after the feed has ended
\* and all its items are consumed serves the connection with the last
\* configuration that compiled.
C14_FeedNeverEnds ==
    /\ pc # "panicked"
    /\ \A i \in 1..Len(returned) :
          (returned[i].exhausted /\ returned[i].event.ok) =>
             IF LastGood(returned[i].epoch) = None
             THEN returned[i].result = Err("no valid tls config.")
             ELSE /\ returned[i].result.ok
                  /\ handshakes[returned[i].result.val.io].config =
                        LastGood(returned[i].epoch)[1]

\* The feed of a stream listener ended, its items were consumed, the last
\* of them did not compile, and two accepts after that returned connections.
C14_Witness ==
    /\ ~listener.static
    /\ stream_ended
    /\ config_stream = <<>>
    /\ Len(consumed) = 2
    /\ ~consumed[2].result.ok
    /\ Len(returned) = 2
    /\ \A i \in 1..2 : returned[i].exhausted /\ returned[i].result.ok
    /\ pc = "idle"

C20_OnlyConfigBranchWrites ==
    [][current_tls_acceptor' # current_tls_acceptor =>
          /\ pc = "select" /\ pc' = "select"
          /\ consumed' = Append(consumed, Last(consumed'))
          /\ Last(consumed').config = Head(config_stream)
          /\ Last(consumed').result.ok
          /\ current_tls_acceptor' = Some(Last(consumed').result.val)
          /\ returned' = returned
          /\ handshakes' = handshakes
          /\ inner' = inner]_vars

\* The acceptor was replaced once, and since then an accept returned the
\* inner error, another a connection, and the handshake of that one ended.
C20_Witness ==
    /\ Len(consumed) = 2
    /\ consumed[1].result.ok /\ consumed[2].result.ok
    /\ consumed[1].result # consumed[2].result
    /\ current_tls_acceptor = Some(consumed[2].result.val)
    /\ \E i, j \in 1..Len(returned) :
          /\ returned[i].epoch = 2 /\ ~returned[i].event.ok
          /\ returned[j].epoch = 2 /\ returned[j].result.ok
          /\ handshakes[returned[j].result.val.io].state # "handshaking"

(***************************************************************************)
(* Properties of create_certificate_key and of the compiled configuration. *)
(***************************************************************************)
\* Every PEM section of the bytes decodes.
Decodes(bytes) == \A i \in 1..Len(bytes) : bytes[i].wf

\* The place of the first section of a private-key type, 0 if there is none.
FirstKeyBlock(bytes) ==
    LET keys == {i \in 1..Len(bytes) : bytes[i].kind \in KeyKinds} IN
    IF keys = {} THEN 0 ELSE CHOOSE i \in keys : \A j \in keys : i <= j

\* The bytes have a private-key block, and it and all before it decode.
KeyBlockFound(bytes) ==
    /\ FirstKeyBlock(bytes) # 0
    /\ \A j \in 1..FirstKeyBlock(bytes) : bytes[j].wf

\* C15: a ServerConfig that create_server_config returns has the ALPN
\* protocols h2, http/1.1, in this order, whatever the configuration.
C15_AlpnProtocols ==
    (server_config # None /\ server_config[1].ok) =>
       /\ Len(server_config[1].val.alpn_protocols) = 2
       /\ server_config[1].val.alpn_protocols[1] = "h2"
       /\ server_config[1].val.alpn_protocols[2] = "http/1.1"

C15_Witness ==
    /\ server_config # None
    /\ server_config[1].ok
    /\ config.fallback # None
    /\ DOMAIN config.certificates # {}
    /\ config.client_auth.mode = "Required"

\* C16: create_certificate_key fails with the error of the cause: of the
\* certificates when a section of the certificate bytes does not decode;
\* else of the private keys when no private-key block is found in the key
\* bytes, malformed key bytes included; else of the key type when the key
\* block found is of no supported type.
C16_ErrorsByCause ==
    (pc = "compiled" /\ config.fallback # None) =>
       LET d == config.fallback[1]
           r == certified_key[1]
       IN  /\ ~Decodes(d.cert) => r = Err("failed to parse tls certificates")
           /\ (Decodes(d.cert) /\ ~KeyBlockFound(d.key)) =>
                 r = Err("failed to parse tls private keys")
           /\ (Decodes(d.cert) /\ KeyBlockFound(d.key)
                 /\ ~d.key[FirstKeyBlock(d.key)].der.valid) =>
                 r = Err("invalid private key")

\* C17: when the key bytes have a private-key block and the sections up to
\* it decode, the key of the compiled certificate is the key of the first
\* such block, whatever sections come before it and after it.
C17_FirstKeyBlockUsed ==
    (/\ pc = "compiled"
     /\ config.fallback # None
     /\ Decodes(config.fallback[1].cert)
     /\ KeyBlockFound(config.fallback[1].key)) =>
       LET d == config.fallback[1]
           first == d.key[FirstKeyBlock(d.key)].der
           r == certified_key[1]
       IN  IF first.valid
           THEN r.ok /\ r.val # None /\ r.val[1].key = first.id
           ELSE r = Err("invalid private key")

\* The key bytes are a certificate, a PKCS#1 key, a section that does not
\* decode and a SEC1 key: the PKCS#1 key is the key.
C17_Witness ==
    /\ pc = "compiled"
    /\ config.fallback # None
    /\ config.fallback[1].key = key3
    /\ certified_key[1] =
          Ok(Some([cert |-> <<Cert(1).der>>, key |-> 1, ocsp |-> Some(<<7>>)]))

\* The OCSP response of a compiled certificate against its descriptor.
OcspAsGiven(certified, d) ==
    /\ certified.ocsp # None <=> d.ocsp_resp # <<>>
    /\ certified.ocsp # None => certified.ocsp[1] = d.ocsp_resp

\* C18: the compiled fallback and every compiled entry of certificates has
\* an OCSP response exactly when ocsp_resp of its descriptor is not empty,
\* and the response is those bytes.
C18_OcspIffNonEmpty ==
    /\ (pc = "compiled" /\ certified_key[1].ok /\ certified_key[1].val # None) =>
          OcspAsGiven(certified_key[1].val[1], config.fallback[1])
    /\ (server_config # None /\ server_config[1].ok) =>
          \A name \in DOMAIN config.certificates :
             OcspAsGiven(server_config[1].val.cert_resolver.certificate_keys[name],
                         config.certificates[name])

C18_Witness ==
    /\ server_config # None
    /\ server_config[1].ok
    /\ config.fallback # None
    /\ config.fallback[1].ocsp_resp = <<>>
    /\ certified_key[1].val[1].ocsp = None
    /\ \E name \in DOMAIN config.certificates :
          /\ config.certificates[name].ocsp_resp = <<7>>
          /\ server_config[1].val.cert_resolver.certificate_keys[name].ocsp = Some(<<7>>)

(***************************************************************************)
(* Properties of make_server_config_builder.                               *)
(***************************************************************************)
\* C21: no thread finds the provider absent when it reads it back, the
\* threads that have their builder all have it with the provider installed,
\* a thread attempts the install only after it saw none installed, and a
\* provider, once installed, is never replaced.
C21_OneProviderForAll ==
    /\ [](\A t \in DOMAIN threads :
             /\ threads[t].pc # "panicked"
             /\ threads[t].pc = "done" => threads[t].provider = default_provider
             /\ threads[t].pc = "done" => default_provider # None)
    /\ [][/\ default_provider # None => default_provider' = default_provider
          /\ \A t \in DOMAIN threads :
                (threads[t].pc = "start" /\ default_provider # None) =>
                   threads'[t].pc # "install"]_vars

\* Two threads saw no provider, one installed it, the install of the other
\* failed, and all three have their builder.
C21_Witness ==
    /\ threads # <<>>
    /\ \A t \in Threads : threads[t].pc = "done"
    /\ \E t, u \in Threads :
          /\ threads[t].install = Some(TRUE)
          /\ threads[u].install = Some(FALSE)
    /\ \E t \in Threads : threads[t].install = None

(***************************************************************************)
(* Properties of the accept loop: its states and its turns.                *)
(***************************************************************************)
\* C27: under SpecFair, an accept call that is at the select! while the
\* inner acceptor has a connection or an error ready returns, although the
\* feed has an item ready on every turn of the loop.
C27_AcceptReturns ==
    \A k \in 0..MaxCalls :
       (pc = "select" /\ inner # <<>> /\ Len(returned) = k) ~> (Len(returned) > k)

\* An accept returned a connection after the loop had taken an item of the
\* feed, and the feed has its next item ready.
C27_Witness ==
    /\ Len(returned) = 2
    /\ returned[2].result.ok
    /\ consumed # <<>>
    /\ config_stream # <<>>
    /\ pc = "idle"

\* C25: the acceptor has no configuration before it is given to its owner,
\* and afterwards it has none exactly as long as no item consumed from the
\* feed has compiled: once one has, it has a configuration for good, and
\* no accept that began after that returns "no valid tls config.".
C25_NeverBackToUnconfigured ==
    /\ pc \in {"listener", "acceptor"} => current_tls_acceptor = None
    /\ current_tls_acceptor = None <=> \A j \in 1..Len(consumed) : ~consumed[j].result.ok
    /\ \A i \in 1..Len(returned) :
          returned[i].result = Err("no valid tls config.") =>
             \A j \in 1..returned[i].epoch : ~consumed[j].result.ok

\* An item compiled, one that did not compile followed it, and after that
\* an accept returned the inner error and the next a connection, whose
\* handshake failed.
C25_Witness ==
    /\ Len(consumed) = 2
    /\ consumed[1].result.ok
    /\ ~consumed[2].result.ok
    /\ Len(returned) = 2
    /\ returned[1].epoch = 2 /\ ~returned[1].event.ok
    /\ returned[2].epoch = 2 /\ returned[2].result.ok
    /\ handshakes[1].state = "failed"
    /\ current_tls_acceptor # None

\* The results accept has for its caller.
AcceptOutcome(r) ==
    \/ r.result.ok
    \/ r.result = Err("no valid tls config.")
    \/ ~r.event.ok /\ r.result = r.event

\* C26: accept has returned once for every call that is over, however many
\* items of the feed the calls consumed, compiled or not, and each time with
\* the outcome of an inner accept.
C26_ConfigEventDoesNotReturn ==
    /\ pc = "idle" => Len(returned) = n.calls
    /\ pc = "select" => Len(returned) = n.calls - 1
    /\ \A i \in 1..Len(returned) : AcceptOutcome(returned[i])

\* One accept call consumed two items, the first compiled and the second
\* did not, and then returned.
C26_Witness ==
    /\ n.calls = 1
    /\ Len(consumed) = 2
    /\ consumed[1].result.ok
    /\ ~consumed[2].result.ok
    /\ Len(returned) = 1
    /\ returned[1].epoch = 2

\* C28: every event taken from the inner acceptor is the event of exactly
\* one return of accept; a connection taken is returned by that call in a
\* handshake stream of its own, begun at once, if the acceptor had a
\* configuration, and is left out of every stream if it had none.
C28_ConnectionDisposedBySameCall ==
    /\ Len(returned) + Len(inner) = n.inner
    /\ Len(handshakes) = Cardinality({i \in 1..Len(returned) : returned[i].result.ok})
    /\ \A i \in 1..Len(returned) :
          returned[i].event.ok =>
             IF LastGood(returned[i].epoch) = None
             THEN returned[i].result = Err("no valid tls config.")
             ELSE /\ returned[i].result.ok
                  /\ returned[i].result.val.io \in 1..Len(handshakes)
                  /\ handshakes[returned[i].result.val.io].client = returned[i].event.val.stream
                  /\ handshakes[returned[i].result.val.io].epoch = returned[i].epoch
    /\ \A i, j \in 1..Len(returned) :
          (i # j /\ returned[i].result.ok /\ returned[j].result.ok) =>
             returned[i].result.val.io # returned[j].result.val.io

\* A connection was taken before any configuration was loaded and dropped
\* with the error; a configuration was loaded afterwards, and the only
\* stream there is belongs to the connection taken after that.
C28_Witness ==
    /\ Len(returned) = 2
    /\ returned[1].event.ok
    /\ returned[1].result = Err("no valid tls config.")
    /\ returned[2].result.ok
    /\ returned[2].event # returned[1].event
    /\ Len(handshakes) = 1
    /\ handshakes[1].state = "ok"
    /\ inner = <<>>

StatusCodes == {400, 401, 404, 405, 500, 502}

\* Display of http::StatusCode.
StatusText(status) ==
    CASE status = 400 -> "400 Bad Request"
      [] status = 401 -> "401 Unauthorized"
      [] status = 404 -> "404 Not Found"
      [] status = 405 -> "405 Method Not Allowed"
      [] status = 500 -> "500 Internal Server Error"
      [] status = 502 -> "502 Bad Gateway"

ErrorValue(type, data) == [type |-> type, data |-> data]

\* The errors of define_simple_errors! and ReadBodyError.
ParsePathError == ErrorValue("ParsePathError", "")
NotFoundError == ErrorValue("NotFoundError", "")
MethodNotAllowedError == ErrorValue("MethodNotAllowedError", "")
CorsError == ErrorValue("CorsError", "")
ReadBodyError(variant) == ErrorValue("ReadBodyError", variant)

\* std::io::Error, which is no ResponseError.
IoError(msg) == ErrorValue("std::io::Error", msg)

\* The StatusError of Error::from_status and the StringError of
\* Error::from_string.
StatusError(status) == ErrorValue("StatusError", StatusText(status))
StringError(msg) == ErrorValue("StringError", msg)

ResponseErrors ==
    {ParsePathError, NotFoundError, MethodNotAllowedError, CorsError,
     ReadBodyError("BodyHasBeenTaken"), ReadBodyError("Utf8")}

OtherErrors == {IoError("aaa"), IoError("not found")}

ErrorTypes ==
    {e.type : e \in ResponseErrors \cup OtherErrors} \cup {"StatusError", "StringError"}

\* ResponseError::status of the types that implement it.
status(err) ==
    CASE err.type = "ParsePathError" -> 400
      [] err.type = "NotFoundError" -> 404
      [] err.type = "MethodNotAllowedError" -> 405
      [] err.type = "CorsError" -> 401
      [] err.type = "ReadBodyError" -> IF err.data = "BodyHasBeenTaken" THEN 500 ELSE 400
      [] err.type = "StatusError" ->
            CHOOSE code \in StatusCodes : StatusText(code) = err.data

\* Display (to_string) of an error value.
to_string(err) ==
    CASE err.type = "ParsePathError" -> "invalid path params"
      [] err.type = "NotFoundError" -> "not found"
      [] err.type = "MethodNotAllowedError" -> "method not allowed"
      [] err.type = "CorsError" -> "unauthorized"
      [] err.type = "ReadBodyError" ->
            IF err.data = "BodyHasBeenTaken" THEN "the body has been taken"
            ELSE "parse utf8: invalid utf-8 sequence"
      [] OTHER -> err.data

\* ErrorSource::BoxedError
BoxedError(err) == [variant |-> "BoxedError", err |-> err]

\* A variant of Error_new with the status of its doc comment.
Error_new_internal(err, code) == [status |-> 500, source |-> BoxedError(err)]

\* Error::new
Error_new(err, code) == [status |-> code, source |-> BoxedError(err)]

\* A variant of From_ResponseError that takes every error for an internal one.
From_ResponseError_internal(err) == Error_new(err, 500)

\* From<T: ResponseError + StdError> for Error
From_ResponseError(err) == Error_new(err, status(err))

\* From<Box<dyn StdError + Send + Sync>> for Error
From_Box(err) == [status |-> 500, source |-> BoxedError(err)]

\* From<(StatusCode, Box<dyn StdError + Send + Sync>)> for Error
From_StatusBox(code, err) == [status |-> code, source |-> BoxedError(err)]

\* Error::from_status
Error_from_status(code) == From_ResponseError(StatusError(code))

\* From<StatusCode> for Error
From_StatusCode(code) == Error_from_status(code)

\* Error::from_string
Error_from_string(msg, code) == Error_new(StringError(msg), code)

\* Error::status
Error_status(e) == e.status

\* Error::is::<T>
Error_is(e, T) == e.source.err.type = T

\* Error::downcast_ref::<T>
Error_downcast_ref(e, T) == IF e.source.err.type = T THEN Some(e.source.err) ELSE None

\* A variant of Error_downcast that rebuilds the Error of a mismatch as an
\* internal error.
Error_downcast_internal(e, T) ==
    IF e.source.err.type = T THEN Ok(e.source.err)
    ELSE Err([status |-> 500, source |-> BoxedError(e.source.err)])

\* Error::downcast::<T>
Error_downcast(e, T) ==
    LET status_ == e.status IN
    IF e.source.err.type = T THEN Ok(e.source.err)
    ELSE Err([status |-> status_, source |-> BoxedError(e.source.err)])

\* A variant of Error_as_response that answers every error alike.
Error_as_response_internal(e) == [status |-> 500, body |-> to_string(e.source.err)]

\* Error::as_response
Error_as_response(e) == [status |-> e.status, body |-> to_string(e.source.err)]

\* What into_result is called on: a value that is an IntoResponse, or a
\* Result whose error type is Error, a ResponseError, a boxed error or a
\* StatusCode.
Plain(v) == [of |-> "T", plain |-> v]
ResultOf(E, r) == [of |-> E, val |-> r]

\* A http::StatusCode as the error of a Result.
StatusCode(code) == [code |-> code]

\* Into<Error> of the error types of the model.
Into_Error(E, e) ==
    CASE E = "Error" -> e
      [] E = "ResponseError" -> From_ResponseError(e)
      [] E = "Box" -> From_Box(e)
      [] E = "StatusCode" -> From_StatusCode(e.code)

\* IntoResult::into_result, of T and of Result<T, E>
into_result(x) ==
    IF x.of = "T" THEN Ok(x.plain)
    ELSE IF x.val.ok THEN Ok(x.val.val)
    ELSE Err(Into_Error(x.of, x.val.err))

Values == {"hello", ""}

IntoResultInputs ==
    {Plain(v) : v \in Values}
    \cup {ResultOf(E, Ok(v)) : E \in {"Error", "ResponseError", "Box", "StatusCode"},
                               v \in Values}
    \cup {ResultOf("ResponseError", Err(e)) : e \in ResponseErrors}
    \cup {ResultOf("Box", Err(e)) : e \in ResponseErrors \cup OtherErrors}
    \cup {ResultOf("StatusCode", Err(StatusCode(code))) : code \in StatusCodes}
    \cup {ResultOf("Error", Err(Error_new(e, code))) : e \in OtherErrors, code \in {404, 502}}

InitError ==
    /\ pc = "convert"
    /\ listener = [static |-> FALSE, config |-> None]
    /\ InitCommon
    /\ NoThreads
    /\ NoConversion
    /\ NoPayload
    /\ NoMessage

\* A conversion into Error is called.
Converted(op, arg, code, e) ==
    /\ pc = "convert"
    /\ conversion = None
    /\ conversion' = Some([op |-> op, arg |-> arg, status |-> code])
    /\ error' = Some(e)
    /\ UNCHANGED <<pc, default_provider, threads, converted, response, downcasted>>
    /\ UNCHANGED <<acceptorVars, builderVars, payloadVars, messageVars>>

ErrorNew(err, code) == Converted("Error::new", err, code, Error_new(err, code))

FromStatusBox(code, err) ==
    Converted("From<(StatusCode, Box)>", err, code, From_StatusBox(code, err))

FromResponseError(err) ==
    Converted("From<ResponseError>", err, status(err), From_ResponseError(err))

FromBox(err) == Converted("From<Box>", err, 500, From_Box(err))

FromStatusCode(code) ==
    Converted("From<StatusCode>", StatusError(code), code, From_StatusCode(code))

FromString(msg, code) ==
    Converted("Error::from_string", StringError(msg), code, Error_from_string(msg, code))

\* into_result is called.
IntoResult(x) ==
    /\ pc = "convert"
    /\ conversion = None
    /\ conversion' = Some([op |-> "into_result", arg |-> x, status |-> 0])
    /\ converted' = Some(into_result(x))
    /\ error' = IF into_result(x).ok THEN None ELSE Some(into_result(x).err)
    /\ UNCHANGED <<pc, default_provider, threads, response, downcasted>>
    /\ UNCHANGED <<acceptorVars, builderVars, payloadVars, messageVars>>

\* as_response of the Error made.
AsResponse ==
    /\ error # None
    /\ downcasted = None
    /\ response = None
    /\ response' = Some(Error_as_response(error[1]))
    /\ UNCHANGED <<pc, default_provider, threads, conversion, error, converted,
                   downcasted>>
    /\ UNCHANGED <<acceptorVars, builderVars, payloadVars, messageVars>>

\* downcast::<T> of the Error made.  It takes the Error by value: error
\* keeps what was made, and nothing more is called on it.
Downcast(T) ==
    /\ error # None
    /\ downcasted = None
    /\ downcasted' = Some([T |-> T, self |-> error[1], res |-> Error_downcast(error[1], T)])
    /\ UNCHANGED <<pc, default_provider, threads, conversion, error, converted, response>>
    /\ UNCHANGED <<acceptorVars, builderVars, payloadVars, messageVars>>

NextError ==
    \/ \E err \in ResponseErrors \cup OtherErrors, code \in StatusCodes : ErrorNew(err, code)
    \/ \E err \in ResponseErrors \cup OtherErrors, code \in StatusCodes :
          FromStatusBox(code, err)
    \/ \E err \in ResponseErrors : FromResponseError(err)
    \/ \E err \in ResponseErrors \cup OtherErrors : FromBox(err)
    \/ \E code \in StatusCodes : FromStatusCode(code)
    \/ \E msg \in Values, code \in StatusCodes : FromString(msg, code)
    \/ \E x \in IntoResultInputs : IntoResult(x)
    \/ AsResponse
    \/ \E T \in ErrorTypes : Downcast(T)

SpecError == InitError /\ [][NextError]_vars

C23_IntoResult ==
    (conversion # None /\ conversion[1].op = "into_result") =>
       LET x == conversion[1].arg IN
       IF x.of = "T" THEN converted = Some(Ok(x.plain))
       ELSE IF x.val.ok THEN converted = Some(Ok(x.val.val))
       ELSE /\ ~converted[1].ok
            /\ x.of = "ResponseError" =>
                  /\ \A T \in ErrorTypes :
                        Error_is(converted[1].err, T) <=> T = x.val.err.type
                  /\ Error_downcast_ref(converted[1].err, x.val.err.type) = Some(x.val.err)
                  /\ Error_status(converted[1].err) = status(x.val.err)
            /\ x.of = "Error" => converted[1].err = x.val.err
            /\ x.of = "StatusCode" => Error_status(converted[1].err) = x.val.err.code

\* Err(ReadBodyError::BodyHasBeenTaken), whose status is that of the variant.
C23_Witness ==
    /\ conversion # None
    /\ conversion[1].op = "into_result"
    /\ conversion[1].arg = ResultOf("ResponseError", Err(ReadBodyError("BodyHasBeenTaken")))
    /\ ~converted[1].ok
    /\ Error_status(converted[1].err) = 500
    /\ Error_is(converted[1].err, "ReadBodyError")

\* C30: the Error made of a ResponseError has the status of that error, of
\* a boxed error 500, of a StatusCode that status; and as_response of an
\* Error, however it was made, has the status of the Error and the Display
\* of the error it holds as its body.
C30_StatusFromSource ==
    /\ conversion # None =>
          /\ conversion[1].op = "From<ResponseError>" =>
                Error_status(error[1]) = status(conversion[1].arg)
          /\ conversion[1].op = "From<Box>" => Error_status(error[1]) = 500
          /\ conversion[1].op = "From<StatusCode>" =>
                Error_status(error[1]) = conversion[1].status
    /\ response # None =>
          /\ response[1].status = Error_status(error[1])
          /\ response[1].body = to_string(error[1].source.err)
          /\ conversion[1].op = "From<StatusCode>" =>
                response[1].body = StatusText(conversion[1].status)

\* The response of Error::from(StatusCode::NOT_FOUND).
C30_Witness ==
    /\ conversion # None
    /\ conversion[1].op = "From<StatusCode>"
    /\ response = Some([status |-> 404, body |-> "404 Not Found"])

\* C31: downcast::<T> of an Error whose wrapped error is of type T returns
\* Ok of exactly the wrapped error; of an Error whose wrapped error is of
\* another type it returns Err of an Error with the status and the wrapped
\* source the Error had before.
C31_DowncastLosesNothing ==
    downcasted # None =>
       LET d == downcasted[1] IN
       /\ Error_is(d.self, d.T) =>
             /\ d.res.ok
             /\ Some(d.res.val) = Error_downcast_ref(d.self, d.T)
       /\ ~Error_is(d.self, d.T) =>
             /\ ~d.res.ok
             /\ Error_status(d.res.err) = Error_status(d.self)
             /\ d.res.err.source = d.self.source
             /\ \A T \in ErrorTypes :
                   Error_downcast_ref(d.res.err, T) = Error_downcast_ref(d.self, T)

\* The Error of NotFoundError, downcast to std::io::Error: the Error comes
\* back with 404 and the NotFoundError in it.
C31_Witness ==
    /\ conversion # None
    /\ conversion[1].op = "From<ResponseError>"
    /\ downcasted # None
    /\ downcasted[1].T = "std::io::Error"
    /\ downcasted[1].res = Err([status |-> 404, source |-> BoxedError(NotFoundError)])

(***************************************************************************)
(* The Base64 payload of poem-openapi.  Bytes are numbers 0..255.  A text  *)
(* is the sequence of its characters, each the number of its place in the  *)
(* base64 alphabet (0..63 for A-Z a-z 0-9 + /), Pad for '=' and Bang for   *)
(* '!', a character outside the alphabet.                                  *)
(***************************************************************************)
Pad == 64
Bang == 65

\* base64::engine::general_purpose::STANDARD.encode
RECURSIVE encode(_)
encode(bytes) ==
    IF Len(bytes) = 0 THEN <<>>
    ELSE IF Len(bytes) = 1
         THEN <<bytes[1] \div 4, (bytes[1] % 4) * 16, Pad, Pad>>
    ELSE IF Len(bytes) = 2
         THEN <<bytes[1] \div 4, (bytes[1] % 4) * 16 + bytes[2] \div 16,
                (bytes[2] % 16) * 4, Pad>>
    ELSE <<bytes[1] \div 4, (bytes[1] % 4) * 16 + bytes[2] \div 16,
           (bytes[2] % 16) * 4 + bytes[3] \div 64, bytes[3] % 64>>
         \o encode(SubSeq(bytes, 4, Len(bytes)))

\* The last group of four characters, decoded.  With trailing_bits the
\* bits of the last character that belong to no byte may be anything.
decode_last(a, b, c, d, trailing_bits) ==
    IF a >= 64 \/ b >= 64 THEN Err("Invalid symbol")
    ELSE IF c = Pad /\ d = Pad
         THEN IF b % 16 # 0 /\ ~trailing_bits THEN Err("Invalid last symbol")
              ELSE Ok(<<a * 4 + b \div 16>>)
    ELSE IF c >= 64 THEN Err("Invalid symbol")
    ELSE IF d = Pad
         THEN IF c % 4 # 0 /\ ~trailing_bits THEN Err("Invalid last symbol")
              ELSE Ok(<<a * 4 + b \div 16, (b % 16) * 16 + c \div 4>>)
    ELSE IF d >= 64 THEN Err("Invalid symbol")
    ELSE Ok(<<a * 4 + b \div 16, (b % 16) * 16 + c \div 4, (c % 4) * 64 + d>>)

RECURSIVE decode_with(_, _)
decode_with(text, trailing_bits) ==
    IF Len(text) = 0 THEN Ok(<<>>)
    ELSE IF Len(text) % 4 # 0
         THEN IF \E i \in 1..Len(text) : text[i] = Bang THEN Err("Invalid symbol")
              ELSE Err("Invalid padding")
    ELSE IF Len(text) = 4
         THEN decode_last(text[1], text[2], text[3], text[4], trailing_bits)
    ELSE IF \E i \in 1..4 : text[i] >= 64 THEN Err("Invalid symbol")
    ELSE LET more == decode_with(SubSeq(text, 5, Len(text)), trailing_bits) IN
         IF ~more.ok THEN more
         ELSE Ok(<<text[1] * 4 + text[2] \div 16,
                   (text[2] % 16) * 16 + text[3] \div 4,
                   (text[3] % 4) * 64 + text[4]>> \o more.val)

\* A variant of decode that allows trailing bits.
decode_allow_trailing_bits(text) == decode_with(text, TRUE)

\* base64::engine::general_purpose::STANDARD.decode: padding is required
\* and has to be canonical, trailing bits have to be zero.
decode(text) == decode_with(text, FALSE)

ParseRequestPayloadError(reason) ==
    [type |-> "ParseRequestPayloadError", reason |-> reason]

\* RequestBody: taken says that an extractor took the body before.
RequestBody(taken, text) == [taken |-> taken, text |-> text]

\* read_base64
read_base64(body) ==
    IF body.taken THEN Err(ParseRequestPayloadError("the body has been taken"))
    ELSE LET data == decode(body.text) IN
         IF ~data.ok THEN Err(ParseRequestPayloadError(data.err))
         ELSE Ok(data.val)

\* Base64
Base64(data) == [data |-> data]

\* ParsePayload::from_request for Base64<Vec<u8>>
from_request(body) ==
    LET data == read_base64(body) IN
    IF data.ok THEN Ok(Base64(data.val)) ELSE data

\* IntoResponse::into_response for Base64
into_response(base64) ==
    [content_type |-> "text/plain; charset=utf-8", body |-> encode(base64.data)]

\* Sequences of length at most k over a set.
RECURSIVE SeqsUpTo(_, _)
SeqsUpTo(S, k) ==
    IF k = 0 THEN {<<>>}
    ELSE SeqsUpTo(S, k - 1)
         \cup {Append(q, x) : q \in {p \in SeqsUpTo(S, k - 1) : Len(p) = k - 1}, x \in S}

\* The bytes "abcdef" and the text "YWJjZGVm" of the example of Base64.
DocBytes == <<97, 98, 99, 100, 101, 102>>
DocText == <<24, 22, 9, 35, 25, 6, 21, 38>>

PayloadBytes == SeqsUpTo({0, 97, 255}, MaxLen) \cup {DocBytes}

\* The request bodies: the encodings of the bytes, and texts of a few
\* characters, '=' and '!' among them.
RequestTexts ==
    {encode(bytes) : bytes \in PayloadBytes} \cup SeqsUpTo({24, 22, Pad, Bang}, MaxText)

InitPayload ==
    /\ pc = "payload"
    /\ listener = [static |-> FALSE, config |-> None]
    /\ InitCommon
    /\ NoThreads
    /\ NoConversion
    /\ NoMessage
    /\ request_body \in {Some(RequestBody(taken, text)) :
                            taken \in BOOLEAN, text \in RequestTexts}
    /\ payload = None
    /\ download = None

\* The endpoint's argument is extracted from the request: the body is taken.
FromRequest ==
    /\ pc = "payload"
    /\ payload = None
    /\ payload' = Some(from_request(request_body[1]))
    /\ request_body' = Some([request_body[1] EXCEPT !.taken = TRUE])
    /\ UNCHANGED <<pc, default_provider, threads, download>>
    /\ UNCHANGED <<acceptorVars, builderVars, errorVars, messageVars>>

\* The endpoint answers with the payload it was given.
IntoResponse ==
    /\ payload # None
    /\ payload[1].ok
    /\ download = None
    /\ download' = Some(into_response(payload[1].val))
    /\ UNCHANGED <<pc, default_provider, threads, request_body, payload>>
    /\ UNCHANGED <<acceptorVars, builderVars, errorVars, messageVars>>

NextPayload == FromRequest \/ IntoResponse

SpecPayload == InitPayload /\ [][NextPayload]_vars

(***************************************************************************)
(* Properties of the Base64 payload.                                       *)
(***************************************************************************)
\* The text is not standard base64: its length is no multiple of four, or a
\* character is outside the alphabet, or '=' is elsewhere than in the last
\* one or two places, or the bits of the last character before the padding
\* that belong to no byte are not zero.
NotStandard(text) ==
    \/ Len(text) % 4 # 0
    \/ \E i \in 1..Len(text) : text[i] = Bang
    \/ \E i \in 1..Len(text) : text[i] = Pad /\ i < Len(text) - 1
    \/ Len(text) >= 4 /\ text[Len(text) - 1] = Pad /\ text[Len(text)] # Pad
    \/ /\ Len(text) >= 4
       /\ text[Len(text)] = Pad
       /\ \/ text[Len(text) - 1] = Pad /\ text[Len(text) - 2] % 16 # 0
          \/ text[Len(text) - 1] < 64 /\ text[Len(text) - 1] % 4 # 0

\* C24: a body that is the encoding of bytes B is parsed to B; a body that
\* is parsed is the encoding of the bytes it is parsed to, and the response
\* made of the payload has that same text as its body; a body that is not
\* standard base64, and a body already taken, gives a
\* ParseRequestPayloadError.
C24_Base64RoundTrip ==
    payload # None =>
       LET text == request_body[1].text
           first == payload[1] = from_request(RequestBody(FALSE, text))
       IN  /\ first =>
                /\ \A bytes \in PayloadBytes :
                      text = encode(bytes) => payload[1] = Ok(Base64(bytes))
                /\ payload[1].ok <=> ~NotStandard(text)
                /\ payload[1].ok => encode(payload[1].val.data) = text
           /\ ~payload[1].ok => payload[1].err.type = "ParseRequestPayloadError"
           /\ download # None =>
                /\ download[1].body = text
                /\ decode(download[1].body) = Ok(payload[1].val.data)

\* The example of Base64: "YWJjZGVm" is uploaded, parsed to "abcdef" and
\* downloaded.
C24_Witness ==
    /\ request_body # None
    /\ request_body[1].text = DocText
    /\ payload = Some(Ok(Base64(DocBytes)))
    /\ download # None
    /\ download[1].body = DocText

(***************************************************************************)
(* The WebSocket messages: poem's Message and CloseCode, tungstenite's     *)
(* Message and CloseCode, and the conversions between them.                *)
(***************************************************************************)
\* The close codes that have a name, as <<name, number>>.
NamedCloseCodes ==
    {<<"Normal", 1000>>, <<"Away", 1001>>, <<"Protocol", 1002>>,
     <<"Unsupported", 1003>>, <<"Status", 1005>>, <<"Abnormal", 1006>>,
     <<"Invalid", 1007>>, <<"Policy", 1008>>, <<"Size", 1009>>,
     <<"Extension", 1010>>, <<"Error", 1011>>, <<"Restart", 1012>>,
     <<"Again", 1013>>, <<"Tls", 1015>>}

\* The variant of a close code of the given number: its name, or the range
\* the number is in.
close_code_variant(code) ==
    IF \E p \in NamedCloseCodes : p[2] = code
    THEN (CHOOSE p \in NamedCloseCodes : p[2] = code)[1]
    ELSE IF code \in 1016..2999 THEN "Reserved"
    ELSE IF code \in 3000..3999 THEN "Iana"
    ELSE IF code \in 4000..4999 THEN "Library"
    ELSE "Bad"

\* The number of a close code: that of its name, or the number it holds.
close_code_number(c) ==
    IF \E p \in NamedCloseCodes : p[1] = c.variant
    THEN (CHOOSE p \in NamedCloseCodes : p[1] = c.variant)[2]
    ELSE c.code

\* From<u16> for CloseCode and From<CloseCode> for u16, of poem.
CloseCode_from_u16(code) ==
    [of |-> "poem", variant |-> close_code_variant(code),
     code |-> IF \E p \in NamedCloseCodes : p[2] = code THEN 0 ELSE code]
CloseCode_into_u16(c) == close_code_number(c)

\* From<u16> for CloseCode and From<CloseCode> for u16, of tungstenite.
tungstenite_CloseCode_from_u16(code) ==
    [of |-> "tungstenite", variant |-> close_code_variant(code),
     code |-> IF \E p \in NamedCloseCodes : p[2] = code THEN 0 ELSE code]
tungstenite_CloseCode_into_u16(c) == close_code_number(c)

\* From<tungstenite CloseCode> for CloseCode
CloseCode_from_tungstenite(code) ==
    CloseCode_from_u16(tungstenite_CloseCode_into_u16(code))

\* From<CloseCode> for tungstenite CloseCode
CloseCode_into_tungstenite(code) ==
    tungstenite_CloseCode_from_u16(CloseCode_into_u16(code))

\* tungstenite's Utf8Bytes and Bytes, and its CloseFrame.
Utf8Bytes(text) == [utf8 |-> text]
Bytes(data) == [owner |-> data]
CloseFrame(code, reason) == [code |-> code, reason |-> Utf8Bytes(reason)]

\* poem's Message: Text(String), Binary, Ping and Pong(Vec<u8>),
\* Close(Option<(CloseCode, String)>).
Message(variant, data) ==
    CASE variant = "Text" -> [of |-> "poem", variant |-> variant, text |-> data]
      [] variant = "Close" -> [of |-> "poem", variant |-> variant, close |-> data]
      [] OTHER -> [of |-> "poem", variant |-> variant, bytes |-> data]

\* tungstenite's Message: Text(Utf8Bytes), Binary, Ping and Pong(Bytes),
\* Close(Option<CloseFrame>), Frame(Frame).
tungstenite_Message(variant, data) ==
    CASE variant = "Text" -> [of |-> "tungstenite", variant |-> variant, text |-> data]
      [] variant = "Close" -> [of |-> "tungstenite", variant |-> variant, close |-> data]
      [] OTHER -> [of |-> "tungstenite", variant |-> variant, bytes |-> data]

\* What a message holds.
payload_of(msg) ==
    CASE msg.variant = "Text" -> msg.text
      [] msg.variant = "Close" -> msg.close
      [] OTHER -> msg.bytes

\* A variant of Message_into_tungstenite that sends no close frame.
Message_into_tungstenite_no_frame(msg) ==
    LET data == payload_of(msg) IN
    CASE msg.variant = "Text" -> tungstenite_Message("Text", Utf8Bytes(data))
      [] msg.variant = "Binary" -> tungstenite_Message("Binary", Bytes(data))
      [] msg.variant = "Ping" -> tungstenite_Message("Ping", Bytes(data))
      [] msg.variant = "Pong" -> tungstenite_Message("Pong", Bytes(data))
      [] msg.variant = "Close" -> tungstenite_Message("Close", None)

\* From<Message> for tungstenite Message
Message_into_tungstenite(msg) ==
    LET data == payload_of(msg) IN
    CASE msg.variant = "Text" -> tungstenite_Message("Text", Utf8Bytes(data))
      [] msg.variant = "Binary" -> tungstenite_Message("Binary", Bytes(data))
      [] msg.variant = "Ping" -> tungstenite_Message("Ping", Bytes(data))
      [] msg.variant = "Pong" -> tungstenite_Message("Pong", Bytes(data))
      [] msg.variant = "Close" ->
            tungstenite_Message("Close",
                IF data = None THEN None
                ELSE Some(CloseFrame(CloseCode_into_tungstenite(data[1][1]), data[1][2])))

\* From<tungstenite Message> for Message: Ok of the Message, or Err of the
\* panic of unreachable!().
Message_from_tungstenite(msg) ==
    LET data == payload_of(msg) IN
    CASE msg.variant = "Text" -> Ok(Message("Text", data.utf8))
      [] msg.variant = "Binary" -> Ok(Message("Binary", data.owner))
      [] msg.variant = "Ping" -> Ok(Message("Ping", data.owner))
      [] msg.variant = "Pong" -> Ok(Message("Pong", data.owner))
      [] msg.variant = "Close" ->
            Ok(Message("Close",
                  IF data = None THEN None
                  ELSE Some(<<CloseCode_from_tungstenite(data[1].code),
                              data[1].reason.utf8>>)))
      [] msg.variant = "Frame" -> Err("unreachable")

\* The numbers of the close codes, the texts and the payloads of the model.
CloseCodeNumbers == {0, 999, 1000, 1001, 1006, 1015, 1016, 2999, 3000, 4999, 5000, 65535}
Texts == {"", "hello"}
Payloads == SeqsUpTo({0, 255}, MaxLen)

Messages ==
    {Message("Text", text) : text \in Texts}
    \cup {Message(variant, data) : variant \in {"Binary", "Ping", "Pong"}, data \in Payloads}
    \cup {Message("Close", None)}
    \cup {Message("Close", Some(<<CloseCode_from_u16(code), reason>>)) :
             code \in CloseCodeNumbers, reason \in Texts}

TungsteniteMessages ==
    {tungstenite_Message("Text", Utf8Bytes(text)) : text \in Texts}
    \cup {tungstenite_Message(variant, Bytes(data)) :
             variant \in {"Binary", "Ping", "Pong"}, data \in Payloads}
    \cup {tungstenite_Message("Close", None)}
    \cup {tungstenite_Message("Close",
                              Some(CloseFrame(tungstenite_CloseCode_from_u16(code), reason))) :
             code \in CloseCodeNumbers, reason \in Texts}
    \cup {tungstenite_Message("Frame", Bytes(data)) : data \in Payloads}

InitMessage ==
    /\ pc = "message"
    /\ listener = [static |-> FALSE, config |-> None]
    /\ InitCommon
    /\ NoThreads
    /\ NoConversion
    /\ NoPayload
    /\ NoMessage

\* A Message is converted to be sent.
IntoTungstenite(msg) ==
    /\ pc = "message"
    /\ sent = None
    /\ wire = None
    /\ sent' = Some(msg)
    /\ wire' = Some(Message_into_tungstenite(msg))
    /\ UNCHANGED <<pc, default_provider, threads, received>>
    /\ UNCHANGED <<acceptorVars, builderVars, errorVars, payloadVars>>

\* A message of tungstenite comes from the peer.
WireArrives(msg) ==
    /\ pc = "message"
    /\ sent = None
    /\ wire = None
    /\ wire' = Some(msg)
    /\ UNCHANGED <<pc, default_provider, threads, sent, received>>
    /\ UNCHANGED <<acceptorVars, builderVars, errorVars, payloadVars>>

\* The message of tungstenite is converted to a Message, or the conversion
\* panics.
FromTungstenite ==
    /\ pc = "message"
    /\ wire # None
    /\ received = None
    /\ LET msg == Message_from_tungstenite(wire[1]) IN
       IF msg.ok THEN received' = Some(msg.val) /\ pc' = pc
       ELSE received' = received /\ pc' = "panicked"
    /\ UNCHANGED <<default_provider, threads, sent, wire>>
    /\ UNCHANGED <<acceptorVars, builderVars, errorVars, payloadVars>>

NextMessage ==
    \/ \E msg \in Messages : IntoTungstenite(msg)
    \/ \E msg \in TungsteniteMessages : WireArrives(msg)
    \/ FromTungstenite

SpecMessage == InitMessage /\ [][NextMessage]_vars

C32_WitnessFrame ==
    /\ wire # None
    /\ wire[1].variant = "Frame"
    /\ pc = "panicked"

====
